---- MODULE Spec2Model ----
(***************************************************************************)
(* Model of the cloudrun Service component (src/service.py).               *)
(*                                                                         *)
(* Service.__init__ is modelled statement by statement (pc), followed by   *)
(* the host engine carrying out the declared resource graph.               *)
(*                                                                         *)
(* Text values are sequences of string tokens; the text a value denotes is *)
(* the concatenation of its tokens, so Python's + / Output.concat is \o.   *)
(* Python values are records [t, i, s, d]: t the type ("none", "int",      *)
(* "str"), i the int, s the text, d whether the value is wrapped in a      *)
(* pulumi.Output (a deferred value, which is a truthy object).             *)
(***************************************************************************)
EXTENDS Integers, Sequences, FiniteSets, TLC

VARIABLES
    name,        \* the `name` argument of Service.__init__
    args,        \* the `args` dict: a function from the keys present to values
    project,     \* gcp_config.project
    region,      \* gcp_config.region
    pc,          \* position in Service.__init__
    raised,      \* the exception raised by __init__: <<>> or its message
    resources,   \* resources registered so far: id -> [type, name, parent, inputs]
    invokes,     \* function invocations made so far: id -> [token, inputs]
    url_src,     \* self.url: <<>> until assigned, then the output it projects
    image_ref_src, \* self.image_ref: <<>> until assigned, then the output it aliases
    outputs,     \* the dict given to register_outputs: key -> resource id
    status,      \* engine: id -> "pending" | "created" | "failed"
    outs,        \* engine: id -> the resolved properties of a created resource
    stdout,      \* what the credential command printed
    url          \* the resolution of self.url: [state, value]

vars == <<name, args, project, region, pc, raised, resources, invokes,
          url_src, image_ref_src, outputs, status, outs, stdout, url>>

ctorVars == <<pc, raised, resources, invokes, url_src, image_ref_src, outputs>>
inputVars == <<name, args, project, region>>
engineVars == <<status, outs, stdout, url>>

(***************************************************************************)
(* Bounds                                                                  *)
(***************************************************************************)
MaxStdoutLen == 4
MaxStatuses == 2

(***************************************************************************)
(* Python values                                                           *)
(***************************************************************************)
NoneV == [t |-> "none", i |-> 0, s |-> <<>>, d |-> FALSE]
IntV(n) == [t |-> "int", i |-> n, s |-> <<>>, d |-> FALSE]
StrV(s) == [t |-> "str", i |-> 0, s |-> s, d |-> FALSE]
OutputOf(v) == [v EXCEPT !.d = TRUE]

\* bool(v): None, 0 and "" are falsy; an Output object is always truthy
Truthy(v) ==
    \/ v.d
    \/ v.t = "int" /\ v.i # 0
    \/ v.t = "str" /\ v.s # <<>>

\* a or b
Or(a, b) == IF Truthy(a) THEN a ELSE b

\* d.get(k): the value under k, None when the key is missing
Get(d, k) == IF k \in DOMAIN d THEN d[k] ELSE NoneV

Digits == <<"0", "1", "2", "3", "4", "5", "6", "7", "8", "9">>

RECURSIVE NatToStr(_)
NatToStr(n) ==
    IF n < 10 THEN <<Digits[n + 1]>>
    ELSE NatToStr(n \div 10) \o <<Digits[(n % 10) + 1]>>

\* str(n) of an int: its decimal digits, "-" first when negative
IntToStr(n) == IF n < 0 THEN <<"-">> \o NatToStr(-n) ELSE NatToStr(n)

\* Output.from_input(v).apply(lambda x: str(x))
ApplyStr(v) ==
    [t |-> "str", i |-> 0, d |-> TRUE,
     s |-> IF v.t = "int" THEN IntToStr(v.i) ELSE v.s]

\* faulty variant: the environment variable is the default port, whatever the port
ApplyStrInt_Fixed(v) ==
    [t |-> "str", i |-> 0, d |-> TRUE, s |-> IntToStr(8080)]

\* Output.from_input(v).apply(lambda x: str(int(x)))
ApplyStrInt(v) ==
    [t |-> "str", i |-> 0, d |-> TRUE, s |-> IntToStr(v.i)]

(***************************************************************************)
(* Deferred text: a sequence of pieces, each a literal or a reference to   *)
(* an output property of a resource or of a function invocation.           *)
(***************************************************************************)
Lit(s) == [r |-> "", a |-> s]
Ref(r, a) == [r |-> r, a |-> a]
\* a plain or Output-wrapped str used as one piece of a concatenation
Pieces(v) == [k \in 1..Len(v.s) |-> Lit(v.s[k])]

RefsOf(e) == {e[k].r : k \in {j \in 1..Len(e) : e[j].r # ""}}

(***************************************************************************)
(* Inputs                                                                  *)
(***************************************************************************)
Names == {<<"web">>, <<"api">>}
ConfigValues == {NoneV, StrV(<<>>), StrV(<<"europe-west1">>)}
ProjectValues == {NoneV, StrV(<<>>), StrV(<<"my-project">>)}

Keys == {"app_path", "image_name", "container_port", "cpu", "memory",
         "concurrency"}

\* the values a caller may store under each key of ServiceArgs
FieldValues(k) ==
    CASE k = "app_path" -> {NoneV, StrV(<<>>), StrV(<<"./src">>)}
      [] k = "image_name" ->
             {StrV(<<>>), StrV(<<"api">>), OutputOf(StrV(<<"api">>))}
      [] k = "container_port" ->
             {NoneV, IntV(0), IntV(9090), OutputOf(IntV(0))}
      [] k = "cpu" -> {IntV(0), IntV(2)}
      [] k = "memory" -> {StrV(<<>>), StrV(<<"2Gi">>)}
      [] k = "concurrency" -> {IntV(0), IntV(5)}

\* every dict over a subset of the keys
AllArgs ==
    UNION {{f \in [K -> UNION {FieldValues(k) : k \in K}] :
                \A k \in K : f[k] \in FieldValues(k)} : K \in SUBSET Keys}

EmptyArgs == [k \in {} |-> NoneV]
ExampleArgs ==
    [k \in Keys \ {"app_path"} |->
        CASE k = "image_name" -> StrV(<<"api">>)
          [] k = "container_port" -> IntV(9090)
          [] k = "cpu" -> IntV(2)
          [] k = "memory" -> StrV(<<"2Gi">>)
          [] k = "concurrency" -> IntV(5)]
FalsyArgs ==
    [k \in Keys |->
        CASE k = "app_path" -> NoneV
          [] k = "image_name" -> StrV(<<>>)
          [] k = "container_port" -> IntV(0)
          [] k = "cpu" -> IntV(0)
          [] k = "memory" -> StrV(<<>>)
          [] k = "concurrency" -> IntV(0)]
\* the args of the engine runs
SomeArgs == {EmptyArgs, ExampleArgs, FalsyArgs}

(***************************************************************************)
(* Service.__init__                                                        *)
(***************************************************************************)
Self == "self"
Ids == {"self", "artifact_registry_repo", "docker_token", "image", "service",
        "invoker"}

\* f"{name}-artifact-repo" and the like
Suffixed(n, suffix) == n \o <<suffix>>

\* faulty variant: project and location change places
_docker_tag_swapped(repo, image_name) ==
    <<Ref(repo, "project"), Lit("-docker.pkg.dev/"), Ref(repo, "location"),
      Lit("/"), Ref(repo, "name"), Lit("/")>>
    \o Pieces(image_name) \o <<Lit(":latest")>>

_docker_tag(repo, image_name) ==
    <<Ref(repo, "location"), Lit("-docker.pkg.dev/"), Ref(repo, "project"),
      Lit("/"), Ref(repo, "name"), Lit("/")>>
    \o Pieces(image_name) \o <<Lit(":latest")>>

Register(id, rec) ==
    /\ resources' = (id :> rec) @@ resources
    /\ status' = [status EXCEPT ![id] = "pending"]

\* super().__init__("cloudrun:index:Service", name, {}, opts)
SuperInit ==
    /\ pc = "super_init"
    /\ Register(Self, [type |-> "cloudrun:index:Service", name |-> name,
                       parent |-> "", inputs |-> <<>>])
    /\ pc' = "check_project"
    /\ UNCHANGED <<raised, invokes, url_src, image_ref_src, outputs>>
    /\ UNCHANGED <<inputVars, outs, stdout, url>>

\* faulty variant: the guard tests `is None`, so an empty string passes
CheckProject_NoneOnly ==
    /\ pc = "check_project"
    /\ IF project.t = "none"
         THEN /\ raised' = <<"ValueError",
                    "Missing required configuration value", "gcp:project">>
              /\ pc' = "raised"
         ELSE /\ pc' = "check_region"
              /\ UNCHANGED raised
    /\ UNCHANGED <<resources, invokes, url_src, image_ref_src, outputs>>
    /\ UNCHANGED <<inputVars, engineVars>>

CheckProject ==
    /\ pc = "check_project"
    /\ IF ~Truthy(project)
         THEN /\ raised' = <<"ValueError",
                    "Missing required configuration value", "gcp:project">>
              /\ pc' = "raised"
         ELSE /\ pc' = "check_region"
              /\ UNCHANGED raised
    /\ UNCHANGED <<resources, invokes, url_src, image_ref_src, outputs>>
    /\ UNCHANGED <<inputVars, engineVars>>

CheckRegion ==
    /\ pc = "check_region"
    /\ IF ~Truthy(region)
         THEN /\ raised' = <<"ValueError",
                    "Missing required configuration value", "gcp:region">>
              /\ pc' = "raised"
         ELSE /\ pc' = "artifact_registry_repo"
              /\ UNCHANGED raised
    /\ UNCHANGED <<resources, invokes, url_src, image_ref_src, outputs>>
    /\ UNCHANGED <<inputVars, engineVars>>

DeclareRepository ==
    /\ pc = "artifact_registry_repo"
    /\ Register("artifact_registry_repo",
                [type |-> "artifactregistry.Repository",
                 name |-> Suffixed(name, "-artifact-repo"),
                 parent |-> Self,
                 inputs |-> [format |-> "DOCKER",
                             repository_id |-> Suffixed(name, "-repo")]])
    /\ pc' = "docker_token"
    /\ UNCHANGED <<raised, invokes, url_src, image_ref_src, outputs>>
    /\ UNCHANGED <<inputVars, outs, stdout, url>>

\* command.local.run_output(...): a function invocation, not a resource
RunTokenCommand ==
    /\ pc = "docker_token"
    /\ invokes' = ("docker_token" :>
            [token |-> "command:local:run",
             inputs |-> [command |->
                            "gcloud auth print-access-token --format=text",
                         logging |-> "NONE"]]) @@ invokes
    /\ status' = [status EXCEPT !["docker_token"] = "pending"]
    /\ pc' = "image"
    /\ UNCHANGED <<raised, resources, url_src, image_ref_src, outputs>>
    /\ UNCHANGED <<inputVars, outs, stdout, url>>

\* faulty variant: the tag is put together from the configuration, not from the
\* repository's outputs, so the image no longer waits for the repository
ImageInputs_StaticTag ==
    [tags |-> <<Pieces(region) \o <<Lit("-docker.pkg.dev/")>> \o Pieces(project)
                \o <<Lit("/")>> \o Pieces(StrV(Suffixed(name, "-repo")))
                \o <<Lit("/")>>
                \o Pieces(Or(Get(args, "image_name"), StrV(<<"image">>)))
                \o <<Lit(":latest")>>>>,
     registries |-> <<[address |-> <<Lit("https://")>> \o Pieces(region)
                                     \o <<Lit("-docker.pkg.dev")>>,
                       password |-> <<Ref("docker_token", "value")>>,
                       username |-> <<Lit("oauth2accesstoken")>>]>>,
     context |-> [location |-> Or(Get(args, "app_path"), StrV(<<"./app">>))],
     platforms |-> <<"linux/amd64">>,
     push |-> TRUE]

ImageInputs ==
    [tags |-> <<_docker_tag("artifact_registry_repo",
                            Or(Get(args, "image_name"), StrV(<<"image">>)))>>,
     registries |-> <<[address |-> <<Lit("https://")>> \o Pieces(region)
                                     \o <<Lit("-docker.pkg.dev")>>,
                       password |-> <<Ref("docker_token", "value")>>,
                       username |-> <<Lit("oauth2accesstoken")>>]>>,
     context |-> [location |-> Or(Get(args, "app_path"), StrV(<<"./app">>))],
     platforms |-> <<"linux/amd64">>,
     push |-> TRUE]

\* faulty variant: the image is declared without opts, so with no parent
DeclareImage_NoParent ==
    /\ pc = "image"
    /\ Register("image", [type |-> "docker_build.Image",
                          name |-> Suffixed(name, "-image"),
                          parent |-> "",
                          inputs |-> ImageInputs])
    /\ pc' = "service"
    /\ UNCHANGED <<raised, invokes, url_src, image_ref_src, outputs>>
    /\ UNCHANGED <<inputVars, outs, stdout, url>>

DeclareImage ==
    /\ pc = "image"
    /\ Register("image", [type |-> "docker_build.Image",
                          name |-> Suffixed(name, "-image"),
                          parent |-> Self,
                          inputs |-> ImageInputs])
    /\ pc' = "service"
    /\ UNCHANGED <<raised, invokes, url_src, image_ref_src, outputs>>
    /\ UNCHANGED <<inputVars, outs, stdout, url>>

\* d.get(k, default): the default only when the key is missing
GetOr(d, k, default) == IF k \in DOMAIN d THEN d[k] ELSE default

\* faulty variant: args.get(key, default) in place of args.get(key) or default
ServiceInputs_KeyDefault ==
    [location |-> Pieces(region),
     image |-> <<Ref("image", "ref")>>,
     memory |-> GetOr(args, "memory", StrV(<<"1Gi">>)),
     cpu |-> ApplyStr(GetOr(args, "cpu", IntV(1))),
     container_port |-> GetOr(args, "container_port", IntV(8080)),
     envs |-> <<[name |-> "FLASK_RUN_PORT",
                 value |-> ApplyStrInt(GetOr(args, "container_port",
                                             IntV(8080)))]>>,
     container_concurrency |-> GetOr(args, "concurrency", IntV(3))]

ServiceInputs ==
    [location |-> Pieces(region),
     image |-> <<Ref("image", "ref")>>,
     memory |-> Or(Get(args, "memory"), StrV(<<"1Gi">>)),
     cpu |-> ApplyStr(Or(Get(args, "cpu"), IntV(1))),
     container_port |-> Or(Get(args, "container_port"), IntV(8080)),
     envs |-> <<[name |-> "FLASK_RUN_PORT",
                 value |-> ApplyStrInt(Or(Get(args, "container_port"),
                                          IntV(8080)))]>>,
     container_concurrency |-> Or(Get(args, "concurrency"), IntV(3))]

DeclareService ==
    /\ pc = "service"
    /\ Register("service", [type |-> "cloudrun.Service",
                            name |-> Suffixed(name, "-service"),
                            parent |-> Self,
                            inputs |-> ServiceInputs])
    /\ pc' = "invoker"
    /\ UNCHANGED <<raised, invokes, url_src, image_ref_src, outputs>>
    /\ UNCHANGED <<inputVars, outs, stdout, url>>

\* faulty variant: the grant is for signed-in users only
InvokerInputs_Authenticated ==
    [location |-> Pieces(region),
     service |-> <<Ref("service", "name")>>,
     role |-> "roles/run.invoker",
     member |-> "allAuthenticatedUsers"]

InvokerInputs ==
    [location |-> Pieces(region),
     service |-> <<Ref("service", "name")>>,
     role |-> "roles/run.invoker",
     member |-> "allUsers"]

DeclareInvoker ==
    /\ pc = "invoker"
    /\ Register("invoker", [type |-> "cloudrun.IamMember",
                            name |-> Suffixed(name, "-invoker"),
                            parent |-> Self,
                            inputs |-> InvokerInputs])
    /\ pc' = "set_outputs"
    /\ UNCHANGED <<raised, invokes, url_src, image_ref_src, outputs>>
    /\ UNCHANGED <<inputVars, outs, stdout, url>>

\* self.url = self.service.statuses.apply(...); self.image_ref = self.image.ref
SetOutputs ==
    /\ pc = "set_outputs"
    /\ url_src' = Ref("service", "statuses")
    /\ image_ref_src' = Ref("image", "ref")
    /\ pc' = "register_outputs"
    /\ UNCHANGED <<raised, resources, invokes, outputs>>
    /\ UNCHANGED <<inputVars, engineVars>>

\* faulty variant: the access grant is left out of the registered outputs
RegisteredOutputs_NoInvoker ==
    [k \in {"service", "image", "artifactRegistryRepo"} |->
        CASE k = "service" -> "service"
          [] k = "image" -> "image"
          [] k = "artifactRegistryRepo" -> "artifact_registry_repo"]

RegisteredOutputs ==
    [k \in {"invoker", "service", "image", "artifactRegistryRepo"} |->
        CASE k = "invoker" -> "invoker"
          [] k = "service" -> "service"
          [] k = "image" -> "image"
          [] k = "artifactRegistryRepo" -> "artifact_registry_repo"]

RegisterOutputs ==
    /\ pc = "register_outputs"
    /\ outputs' = RegisteredOutputs
    /\ pc' = "done"
    /\ UNCHANGED <<raised, resources, invokes, url_src, image_ref_src>>
    /\ UNCHANGED <<inputVars, engineVars>>

Construct ==
    \/ SuperInit
    \/ CheckProject
    \/ CheckRegion
    \/ DeclareRepository
    \/ RunTokenCommand
    \/ DeclareImage
    \/ DeclareService
    \/ DeclareInvoker
    \/ SetOutputs
    \/ RegisterOutputs

(***************************************************************************)
(* Initial states                                                          *)
(***************************************************************************)
InitState ==
    /\ pc = "super_init"
    /\ raised = <<>>
    /\ resources = <<>>
    /\ invokes = <<>>
    /\ url_src = Lit("")
    /\ image_ref_src = Lit("")
    /\ outputs = <<>>
    /\ status = [id \in Ids |-> "undeclared"]
    /\ outs = <<>>
    /\ stdout = <<>>
    /\ url = [state |-> "pending", value |-> <<>>]

InitDeclare ==
    /\ name \in Names
    /\ args \in AllArgs
    /\ project \in ProjectValues
    /\ region \in ConfigValues
    /\ InitState

\* the declaration pass alone, over every args dict
SpecDeclare == InitDeclare /\ [][Construct]_vars

(***************************************************************************)
(* The credential parse: x.split(":")[1].strip()                           *)
(***************************************************************************)
Whitespace == {" ", "\n"}

\* s.split(sep): the fields between the separators, at least one field
RECURSIVE Split(_, _)
Split(s, sep) ==
    IF \A k \in 1..Len(s) : s[k] # sep THEN <<s>>
    ELSE LET k == CHOOSE j \in 1..Len(s) :
                      s[j] = sep /\ \A h \in 1..(j - 1) : s[h] # sep
         IN <<SubSeq(s, 1, k - 1)>> \o Split(SubSeq(s, k + 1, Len(s)), sep)

\* s.strip(): s without its leading and trailing whitespace
RECURSIVE Strip(_)
Strip(s) ==
    IF s = <<>> THEN s
    ELSE IF Head(s) \in Whitespace THEN Strip(Tail(s))
    ELSE IF s[Len(s)] \in Whitespace THEN Strip(SubSeq(s, 1, Len(s) - 1))
    ELSE s

\* faulty variant: output without a ":" is taken whole instead of raising
ParseToken_WholeOutput(x) ==
    LET fields == Split(x, ":")
    IN IF Len(fields) < 2 THEN [ok |-> TRUE, value |-> Strip(x)]
       ELSE [ok |-> TRUE, value |-> Strip(fields[2])]

\* lambda x: x.split(":")[1].strip(); [ok |-> FALSE] stands for IndexError
ParseToken(x) ==
    LET fields == Split(x, ":")
    IN IF Len(fields) < 2 THEN [ok |-> FALSE, value |-> <<>>]
       ELSE [ok |-> TRUE, value |-> Strip(fields[2])]

(***************************************************************************)
(* The host engine: it carries out what __init__ declared, a resource once *)
(* every output its inputs refer to is known.                              *)
(***************************************************************************)
\* the deferred texts among the inputs of a declared resource
TextInputs(id) ==
    LET in == resources[id].inputs
    IN CASE id = "image" ->
                {in.tags[1], in.registries[1].address,
                 in.registries[1].password, in.registries[1].username}
         [] id = "service" -> {in.location, in.image}
         [] id = "invoker" -> {in.location, in.service}
         [] OTHER -> {}

\* the resources and invocations a declared resource waits for
DepsOf(id) == UNION {RefsOf(e) : e \in TextInputs(id)}

\* the text of a deferred text once everything it refers to is known
RECURSIVE Resolve(_)
Resolve(e) ==
    IF e = <<>> THEN <<>>
    ELSE (IF Head(e).r = "" THEN <<Head(e).a>> ELSE outs[Head(e).r][Head(e).a])
         \o Resolve(Tail(e))

Started == pc \in {"done", "raised"}

Ready(id) ==
    /\ Started
    /\ id \in DOMAIN resources
    /\ status[id] = "pending"
    /\ \A d \in DepsOf(id) : status[d] = "created"

Fail(id) ==
    /\ status' = [status EXCEPT ![id] = "failed"]
    /\ UNCHANGED outs

Succeed(id, out) ==
    /\ status' = [status EXCEPT ![id] = "created"]
    /\ outs' = (id :> out) @@ outs

Chars == {"t", ":", " "}
Stdouts == UNION {[1..n -> Chars] : n \in 0..MaxStdoutLen}

\* the local command runs; its stdout goes through the parse
TokenCommand ==
    /\ Started
    /\ "docker_token" \in DOMAIN invokes
    /\ status["docker_token"] = "pending"
    /\ \/ /\ Fail("docker_token")           \* non-zero exit
          /\ UNCHANGED stdout
       \/ \E x \in Stdouts :
            /\ stdout' = x
            /\ IF ParseToken(x).ok
                 THEN Succeed("docker_token", [value |-> ParseToken(x).value])
                 ELSE Fail("docker_token")
    /\ UNCHANGED <<ctorVars, inputVars, url>>

\* project and location are not passed: the provider fills them from its
\* configuration
CreateRepository ==
    /\ Ready("artifact_registry_repo")
    /\ \/ Fail("artifact_registry_repo")
       \/ Succeed("artifact_registry_repo",
                  [location |-> region.s,
                   project |-> project.s,
                   name |-> resources["artifact_registry_repo"]
                                .inputs.repository_id])
    /\ UNCHANGED <<ctorVars, inputVars, stdout, url>>

Digests == {"sha256:1f", "sha256:2e"}

\* push is set: the builder reports ref as the pushed tag with the digest of
\* the build
BuildImage ==
    /\ Ready("image")
    /\ \/ Fail("image")
       \/ \E digest \in Digests :
            LET in == resources["image"].inputs
                tag == Resolve(in.tags[1])
            IN Succeed("image",
                       [tags |-> <<tag>>,
                        address |-> Resolve(in.registries[1].address),
                        password |-> Resolve(in.registries[1].password),
                        username |-> Resolve(in.registries[1].username),
                        digest |-> digest,
                        ref |-> tag \o <<"@", digest>>])
    /\ UNCHANGED <<ctorVars, inputVars, stdout, url>>

Urls == {<<"https://a.run.app">>, <<"https://b.run.app">>}
StatusLists == UNION {[1..n -> [url : Urls]] : n \in 0..MaxStatuses}

CreateService ==
    /\ Ready("service")
    /\ \/ Fail("service")
       \/ \E statuses \in StatusLists :
            LET in == resources["service"].inputs
            IN Succeed("service",
                       [name |-> resources["service"].name,
                        location |-> Resolve(in.location),
                        image |-> Resolve(in.image),
                        statuses |-> statuses])
    /\ UNCHANGED <<ctorVars, inputVars, stdout, url>>

CreateInvoker ==
    /\ Ready("invoker")
    /\ \/ Fail("invoker")
       \/ LET in == resources["invoker"].inputs
          IN Succeed("invoker",
                     [location |-> Resolve(in.location),
                      service |-> Resolve(in.service),
                      role |-> in.role,
                      member |-> in.member])
    /\ UNCHANGED <<ctorVars, inputVars, stdout, url>>

\* lambda statuses: statuses[0].url, run once the service's statuses are known
ResolveUrl ==
    /\ Started
    /\ url_src.r # ""
    /\ status[url_src.r] = "created"
    /\ url.state = "pending"
    /\ LET statuses == outs[url_src.r][url_src.a]
       IN url' = IF Len(statuses) = 0
                   THEN [state |-> "IndexError", value |-> <<>>]
                   ELSE [state |-> "resolved", value |-> statuses[1].url]
    /\ UNCHANGED <<ctorVars, inputVars, status, outs, stdout>>

\* register_outputs: the component is complete once every registered output
\* is
ComponentReady ==
    /\ pc = "done"
    /\ status[Self] = "pending"
    /\ \A k \in DOMAIN outputs : status[outputs[k]] = "created"
    /\ status' = [status EXCEPT ![Self] = "created"]
    /\ UNCHANGED <<ctorVars, inputVars, outs, stdout, url>>

Engine ==
    \/ TokenCommand
    \/ CreateRepository
    \/ BuildImage
    \/ CreateService
    \/ CreateInvoker
    \/ ResolveUrl
    \/ ComponentReady

\* self.image_ref as the engine reports it
image_ref ==
    IF image_ref_src.r # "" /\ status[image_ref_src.r] = "created"
    THEN [state |-> "resolved", value |-> outs[image_ref_src.r][image_ref_src.a]]
    ELSE [state |-> "pending", value |-> <<>>]

Init ==
    /\ name \in Names
    /\ args \in SomeArgs
    /\ project \in ProjectValues
    /\ region \in ConfigValues
    /\ InitState

Next == Construct \/ Engine

Spec == Init /\ [][Next]_vars

(***************************************************************************)
(* Properties                                                              *)
(***************************************************************************)
Children == {"artifact_registry_repo", "image", "service", "invoker"}
MissingConfig == ~Truthy(project) \/ ~Truthy(region)
BeforeChildren == {"super_init", "check_project", "check_region", "raised"}

\* the error the guard must raise: the first missing key, project first
ExpectedError ==
    <<"ValueError", "Missing required configuration value",
      IF ~Truthy(project) THEN "gcp:project" ELSE "gcp:region">>

\* C1 (as stated): when project or region is absent, construction fails
\* naming the missing key and no resource registration of any kind has
\* happened by the time the error is raised.
C1_NoRegistrationOfAnyKind ==
    (MissingConfig /\ pc = "raised") =>
        /\ raised = ExpectedError
        /\ DOMAIN resources = {}
        /\ DOMAIN invokes = {}

\* C1 (amended): when project or region is absent (None or ""), construction
\* never gets past the guard, the error raised names the missing key, and
\* nothing but the Service component itself has been registered: no child
\* resource, no function invocation.
C1_FailsBeforeAnyChild ==
    MissingConfig =>
        /\ pc \in BeforeChildren
        /\ (pc = "raised" =>
                /\ raised = ExpectedError
                /\ DOMAIN resources = {Self})
        /\ DOMAIN resources \subseteq {Self}
        /\ DOMAIN invokes = {}
        /\ \A id \in Ids \ {Self} : status[id] = "undeclared"

C1_Witness ==
    /\ pc = "raised"
    /\ Truthy(project)
    /\ region = StrV(<<>>)
    /\ raised[3] = "gcp:region"

\* the dependency edges the declarations carry: <<from, to>>
Edges ==
    {<<d, id>> : d \in Ids, id \in DOMAIN resources} \cap
    {e \in Ids \X Ids : e[2] \in DOMAIN resources /\ e[1] \in DepsOf(e[2])}

ExpectedEdges ==
    {<<"artifact_registry_repo", "image">>, <<"docker_token", "image">>,
     <<"image", "service">>, <<"service", "invoker">>}

\* C2 (as stated): construction produces exactly five child resources
\* (repository, token provider, image, service, access grant), each parented
\* to the Service, with the four dependency edges.
C2_FiveParentedChildren ==
    pc = "done" =>
        /\ DOMAIN resources \ {Self} = Children \cup {"docker_token"}
        /\ \A id \in DOMAIN resources \ {Self} : resources[id].parent = Self
        /\ Edges = ExpectedEdges

\* C2 (amended): construction registers exactly four child resources
\* (repository, image, service, access grant), each parented to the Service,
\* plus one function invocation (the token command), which is no resource and
\* has no parent; the dependency edges are exactly repository -> image,
\* token -> image, image -> service, service -> access grant.
C2_FourChildrenOneInvoke ==
    pc = "done" =>
        /\ DOMAIN resources \ {Self} = Children
        /\ \A id \in Children : resources[id].parent = Self
        /\ DOMAIN invokes = {"docker_token"}
        /\ DOMAIN invokes["docker_token"] = {"token", "inputs"}
        /\ Edges = ExpectedEdges

C2_Witness == pc = "done" /\ DOMAIN args = {}

\* the image name in effect
ImageName ==
    IF "image_name" \in DOMAIN args /\ Truthy(args["image_name"])
    THEN args["image_name"].s ELSE <<"image">>

\* {region}-docker.pkg.dev/{project}/{repoName}/{imageName}:latest
ExpectedTag ==
    region.s \o <<"-docker.pkg.dev/">> \o project.s \o <<"/">>
    \o name \o <<"-repo">> \o <<"/">> \o ImageName \o <<":latest">>

\* C3 (as stated): imageRef, once resolved, is exactly
\* {region}-docker.pkg.dev/{project}/{repoName}/{imageName}:latest and so
\* ends in :latest.
C3_ImageRefIsTheTag ==
    image_ref.state = "resolved" =>
        /\ image_ref.value = ExpectedTag
        /\ image_ref.value[Len(image_ref.value)] = ":latest"

\* C3 (amended): the tag given to the image builder is exactly
\* {region}-docker.pkg.dev/{project}/{repoName}/{imageName}:latest; imageRef
\* is the builder's reported reference, that tag followed by "@" and the
\* digest of the build.
C3_ImageRefIsTagAtDigest ==
    /\ status["image"] = "created" => outs["image"].tags = <<ExpectedTag>>
    /\ image_ref.state = "resolved" =>
          image_ref.value = ExpectedTag \o <<"@", outs["image"].digest>>

C3_Witness ==
    /\ image_ref.state = "resolved"
    /\ ImageName = <<"api">>

\* C4: url is absent, and nothing raises, when the service reports no status
\* entry; otherwise url is the url of the first entry.
C4_UrlAbsentOnEmptyStatuses ==
    (status["service"] = "created" /\ url.state # "pending") =>
        IF outs["service"].statuses = <<>>
        THEN url.state = "absent"
        ELSE /\ url.state = "resolved"
             /\ url.value = outs["service"].statuses[1].url

\* the documented defaults
Default(k) ==
    CASE k = "app_path" -> StrV(<<"./app">>)
      [] k = "image_name" -> StrV(<<"image">>)
      [] k = "container_port" -> IntV(8080)
      [] k = "cpu" -> IntV(1)
      [] k = "memory" -> StrV(<<"1Gi">>)
      [] k = "concurrency" -> IntV(3)

\* the value in effect for a field: the one supplied when present and
\* truthy, the default otherwise
Effective(k) ==
    IF k \in DOMAIN args /\ Truthy(args[k]) THEN args[k] ELSE Default(k)

DigitValue(c) == CHOOSE d \in 0..9 : Digits[d + 1] = c

\* the number a string of decimal digits denotes
RECURSIVE StrToNat(_)
StrToNat(s) ==
    IF s = <<>> THEN 0
    ELSE 10 * StrToNat(SubSeq(s, 1, Len(s) - 1)) + DigitValue(s[Len(s)])

\* s is the decimal string of the natural number n
IsDecimalOf(s, n) ==
    /\ Len(s) >= 1
    /\ \A k \in 1..Len(s) : \E d \in 1..10 : Digits[d] = s[k]
    /\ Len(s) > 1 => s[1] # "0"
    /\ StrToNat(s) = n

\* the image name as it appears in the tag given to the builder
TagImageName ==
    LET tag == resources["image"].inputs.tags[1]
    IN [k \in 1..(Len(tag) - 7) |-> tag[k + 6].a]

\* C5: each of the six fields is used as supplied when present and truthy,
\* and as its documented default when the key is missing or its value is
\* None, 0 or ""; with empty args every default applies.
C5_SuppliedOrDefault ==
    pc = "done" =>
        LET image == resources["image"].inputs
            service == resources["service"].inputs
        IN /\ image.context.location = Effective("app_path")
           /\ TagImageName = Effective("image_name").s
           /\ service.container_port = Effective("container_port")
           /\ IsDecimalOf(service.cpu.s, Effective("cpu").i)
           /\ service.memory = Effective("memory")
           /\ service.container_concurrency = Effective("concurrency")
           /\ (DOMAIN args = {} =>
                 /\ image.context.location.s = <<"./app">>
                 /\ TagImageName = <<"image">>
                 /\ service.container_port.i = 8080
                 /\ service.cpu.s = <<"1">>
                 /\ service.memory.s = <<"1Gi">>
                 /\ service.container_concurrency.i = 3)

C5_Witness ==
    /\ pc = "done"
    /\ DOMAIN args = Keys
    /\ args["container_port"] = IntV(0)
    /\ args["memory"] = StrV(<<>>)
    /\ args["app_path"] = NoneV
    /\ args["cpu"] = IntV(2)

IsExampleArgs ==
    /\ DOMAIN args = DOMAIN ExampleArgs
    /\ \A k \in DOMAIN args : args[k] = ExampleArgs[k]

\* C6: the service declaration carries the port in effect as its listen port
\* and the decimal string of the same number as FLASK_RUN_PORT, the cpu in
\* effect as a decimal string, and memory and concurrency unchanged; the
\* example args give 9090, "9090", "2", "2Gi" and 5.
C6_ServiceCarriesSizing ==
    pc = "done" =>
        LET service == resources["service"].inputs
            env == service.envs[1]
        IN /\ Len(service.envs) = 1
           /\ env.name = "FLASK_RUN_PORT"
           /\ env.value.t = "str"
           /\ IsDecimalOf(env.value.s, service.container_port.i)
           /\ service.container_port.t = "int"
           /\ service.container_port.i = Effective("container_port").i
           /\ service.cpu.t = "str"
           /\ IsDecimalOf(service.cpu.s, Effective("cpu").i)
           /\ service.memory = Effective("memory")
           /\ service.container_concurrency = Effective("concurrency")
           /\ (IsExampleArgs =>
                 /\ service.container_port = IntV(9090)
                 /\ env.value.s = <<"9", "0", "9", "0">>
                 /\ service.cpu.s = <<"2">>
                 /\ service.memory = StrV(<<"2Gi">>)
                 /\ service.container_concurrency = IntV(5))

C6_Witness == pc = "done" /\ IsExampleArgs

HasColon(x) == \E k \in 1..Len(x) : x[k] = ":"

\* the second ":"-separated field of x, which holds a ":"
SecondField(x) ==
    LET first == CHOOSE k \in 1..Len(x) :
                     x[k] = ":" /\ \A h \in 1..(k - 1) : x[h] # ":"
        later == {k \in (first + 1)..Len(x) : x[k] = ":"}
        stop == IF later = {} THEN Len(x) + 1
                ELSE CHOOSE k \in later : \A h \in later : k <= h
    IN SubSeq(x, first + 1, stop - 1)

\* f without the whitespace around it
Trimmed(f) ==
    LET black == {k \in 1..Len(f) : f[k] \notin Whitespace}
    IN IF black = {} THEN <<>>
       ELSE SubSeq(f, CHOOSE k \in black : \A h \in black : k <= h,
                      CHOOSE k \in black : \A h \in black : k >= h)

Untouched(id) == status[id] \in {"undeclared", "pending"}
Finished(id) == status[id] \in {"created", "failed"}

C7_State ==
    /\ (Started /\ status["docker_token"] # "created") =>
          /\ Untouched("image")
          /\ Untouched("service")
          /\ Untouched("invoker")
          /\ status[Self] # "created"
    /\ (Finished("docker_token") /\ ~HasColon(stdout)) =>
          status["docker_token"] = "failed"
    /\ status["docker_token"] = "created" =>
          /\ HasColon(stdout)
          /\ outs["docker_token"].value = Trimmed(SecondField(stdout))
    /\ \A id \in DOMAIN resources : \A e \in TextInputs(id) :
          "docker_token" \in RefsOf(e) =>
              /\ id = "image"
              /\ e = resources[id].inputs.registries[1].password
    /\ status["image"] = "created" =>
          outs["image"].password = outs["docker_token"].value

\* C7: a credential command that fails, or whose output has no ":", fails
\* for good (no retry, no fallback), and then the image is never built and
\* neither the service nor the access grant is created; on success the
\* credential is the second ":"-separated field of the output without the
\* whitespace around it, and only the image builder's registry password
\* uses it.
C7_CredentialFailurePropagates ==
    /\ []C7_State
    /\ [][status["docker_token"] = "failed" =>
              status'["docker_token"] = "failed"]_vars

C7_Witness ==
    /\ status["docker_token"] = "failed"
    /\ stdout # <<>>
    /\ status["artifact_registry_repo"] = "created"

\* C8: the access grant always has member "allUsers" and role
\* "roles/run.invoker" and targets the name of the service this Service
\* declared, whatever the args.
C8_PublicInvokerGrant ==
    "invoker" \in DOMAIN resources =>
        LET grant == resources["invoker"]
        IN /\ grant.type = "cloudrun.IamMember"
           /\ grant.inputs.member = "allUsers"
           /\ grant.inputs.role = "roles/run.invoker"
           /\ grant.inputs.service = <<Ref("service", "name")>>
           /\ "service" \in DOMAIN resources
           /\ resources["service"].type = "cloudrun.Service"
           /\ resources["service"].parent = Self
           /\ grant.parent = Self

C8_Witness ==
    /\ "invoker" \in DOMAIN resources
    /\ DOMAIN args = Keys
    /\ \A k \in Keys : Truthy(args[k])

\* C9: the Service registers the repository, the image, the service and the
\* access grant as its outputs, and it is ready only once all four are
\* created: never while one of them is pending or has failed.
C9_ReadyAfterAllFour ==
    /\ pc = "done" => {outputs[k] : k \in DOMAIN outputs} = Children
    /\ status[Self] = "created" =>
          \A id \in Children : status[id] = "created"

C9_Witness == status[Self] = "created"

\* C10: the image build starts only after the repository is created and the
\* credential obtained, the service is created only after the image is built,
\* the access grant only after the service exists; a step that fails keeps
\* every step depending on it from running.
C10_LinearFlow ==
    /\ Finished("image") =>
          /\ status["artifact_registry_repo"] = "created"
          /\ status["docker_token"] = "created"
    /\ Finished("service") => status["image"] = "created"
    /\ Finished("invoker") => status["service"] = "created"
    /\ status["artifact_registry_repo"] = "failed" =>
          Untouched("image") /\ Untouched("service") /\ Untouched("invoker")
    /\ status["docker_token"] = "failed" =>
          Untouched("image") /\ Untouched("service") /\ Untouched("invoker")
    /\ status["image"] = "failed" =>
          Untouched("service") /\ Untouched("invoker")
    /\ status["service"] = "failed" => Untouched("invoker")

C10_Witness ==
    /\ status["invoker"] = "created"
    /\ status["image"] = "created"

====
